---------------------------- MODULE Spec2Model ----------------------------
(***************************************************************************)
(* A model of toil's AWS provisioner                                       *)
(* (src/src/toil/provisioners/aws/awsProvisioner.py): the cluster          *)
(* lifecycle operations launchCluster, _addNodes and destroyCluster acting *)
(* on the cloud state of one cluster (instances, security group, IAM role  *)
(* and instance profile, spot requests), with the cloud as environment.    *)
(*                                                                         *)
(* Operations run one at a time (the caller serialises them per cluster);  *)
(* the cloud moves instances between lifecycle states at any moment.       *)
(*                                                                         *)
(* Spec is the lifecycle of one cluster, FairSpec its launch under a fair  *)
(* cloud, SpecTeardown the same with IAM objects removed by another party  *)
(* during destroyCluster.  SpecNames is _toNameSpace on pairs of names,    *)
(* SpecAcct an account with several clusters, SpecRetry the retry around   *)
(* delete_security_group, SpecIdentity _getProfileARN call by call and     *)
(* SpecListing the listings of the instances of one cluster, SpecSweep     *)
(* destroyCluster with instances stopped or showing up late, SpecMapping   *)
(* _getBlockDeviceMapping and SpecAddress _waitForIP, each pass by pass.   *)
(***************************************************************************)
EXTENDS Naturals, Integers, Sequences, FiniteSets

\* ------------------------------------------------------------------ bounds

\* Instances ever created in one run of the model.
MaxInst == 3
\* Largest numNodes passed to _addNodes.
MaxNodes == 2
\* Longest cluster name handed to _toNameSpace on its own.
MaxNameLen == 3
\* Instances ever launched, and spot requests ever filed, in an account with
\* several clusters.
MaxFleet == 2
MaxReqs == 1

\* ------------------------------------------------------- cluster names

\* Names are sequences of characters: "a" stands for the lowercase letters,
\* "A" for the uppercase ones; "_", "-" and "/" are the characters
\* _toNameSpace treats specially.

\* str.isupper() on one character.
IsUpper(c) == c = "A"

\* The name of the cluster whose cloud state the model holds.
TheCluster == <<"a", "-", "a">>

\* str.replace(old, new), character for character.
Replace(s, old, new) == [i \in 1..Len(s) |-> IF s[i] = old THEN new ELSE s[i]]

StartsWith(s, c) == Len(s) > 0 /\ s[1] = c

\* _toNameSpace without the test for '_'.
ToNameSpaceNoUnderscore(clusterName) ==
    IF \E i \in 1..Len(clusterName) : IsUpper(clusterName[i])
    THEN [ok |-> FALSE, ns |-> <<>>]
    ELSE [ok |-> TRUE,
          ns |-> Replace(IF ~StartsWith(clusterName, "/")
                         THEN <<"/">> \o clusterName \o <<"/">>
                         ELSE clusterName, "-", "/")]

\* _toNameSpace: [ok |-> FALSE] stands for the RuntimeError it raises.
ToNameSpace(clusterName) ==
    IF (\E i \in 1..Len(clusterName) : IsUpper(clusterName[i]))
       \/ (\E i \in 1..Len(clusterName) : clusterName[i] = "_")
    THEN [ok |-> FALSE, ns |-> <<>>]
    ELSE LET namespace == IF ~StartsWith(clusterName, "/")
                          THEN <<"/">> \o clusterName \o <<"/">>
                          ELSE clusterName
         IN  [ok |-> TRUE, ns |-> Replace(namespace, "-", "/")]

\* _buildContext(clusterName, zone): the zone is resolved first (a lookup
\* when none is passed, failing when the lookup finds none), the namespace
\* second.  lookup: whether getCurrentAWSZone() was called; ns: the namespace
\* of the context built.
BuildContext(clusterName, zoneGiven, zoneFound) ==
    IF ~zoneGiven /\ ~zoneFound
    THEN [err |-> "ZoneError", lookup |-> TRUE, ns |-> <<>>]
    ELSE IF ~ToNameSpace(clusterName).ok
         THEN [err |-> "NameError", lookup |-> ~zoneGiven, ns |-> <<>>]
         ELSE [err |-> "none", lookup |-> ~zoneGiven, ns |-> ToNameSpace(clusterName).ns]

\* ------------------------------------------------------ security group

RuleSSH   == [proto |-> "tcp", from |-> 22, to |-> 22, src |-> "0.0.0.0/0"]
RuleIntra == [proto |-> "tcp", from |-> 0, to |-> 65535, src |-> "group"]
RuleMesos == [proto |-> "tcp", from |-> 5050, to |-> 5051, src |-> "0.0.0.0/0"]

\* The web.authorize calls of _createSecurityGroup, in the order made.
AuthorizeOrder == <<RuleSSH, RuleIntra, RuleMesos>>

NoGroup == [exists |-> FALSE, rules |-> {}]

\* The role _getProfileARN sets up and binds: to_aws_name('-toil').
OwnRole == "own"

\* Neither the role nor the instance profile exists.
NoIdentity == [role |-> FALSE, profile |-> FALSE, attached |-> {}]

\* ------------------------------------------------------- storage mapping

\* len(bdtKeys) - 1: the device slots /dev/xvdb, /dev/xvdc, /dev/xvdd.
NumDeviceSlots == 3

\* _getBlockDeviceMapping: bdtKeys[disk] for disk in 1..disks; an index past
\* the list raises IndexError.
BlockDeviceMappingOk(disks) == disks <= NumDeviceSlots

\* ------------------------------------------------------------ the state

VARIABLES
    \* the cloud
    instances,        \* sequence of lifecycle states; the index is the id and the launch order
    sg,               \* the cluster's security group: [exists, rules]
    iam,              \* the cluster's role and instance profile: [role, profile, attached (roles)]
    spotOutstanding,  \* whether a spot request tagged to the cluster is outstanding
    \* the running operation
    pc,               \* where the operation stands; idle, returned, raised between operations
    opName,           \* "launch", "addNodes", "destroy"
    argBad,           \* the clusterName passed has an uppercase letter or '_'
    ns,               \* the namespace of the context the operation works in
    zoneEnv,          \* getCurrentAWSZone() finds a zone
    calls,            \* the cloud calls the operation has issued
    seen,             \* the tolerated error responses it has seen
    result,           \* "ok" or the error raised
    ret,              \* the value returned
    pre,              \* the security group, IAM and spot-request state when the operation began
    \* _createSecurityGroup
    ensN,             \* normal returns of _createSecurityGroup since the group was last absent
    \* destroyCluster
    discovered,       \* instances: the inventory snapshot
    terminable,       \* instancesToTerminate
    preserved,        \* impaired instances held back by the debug mode
    \* _getLeader
    leader,           \* the instance picked as leader (0: none)
    visited,          \* the readiness stages entered, in order
    \* _addNodes
    argN,             \* numNodes
    argPre,           \* preemptable
    requested,        \* num_instances passed to the cloud
    launched,         \* the instances created by this call
    \* _toNameSpace on its own
    nameIn,           \* the cluster names handed to _toNameSpace
    nsOut,            \* what _toNameSpace made of each
    \* the cloud account with several clusters in it
    groups,           \* the names of the security groups that exist
    fleet,            \* the instances, in launch order: [group, spot, tag, profile, state]
    spotReqs,         \* the spot requests: [by, tag, state]
    roles,            \* the names of the IAM roles (each with its instance profile) that exist
    \* the retry loop around delete_security_group
    sgState,          \* the group at the cloud: "in use", "free" or "gone"
    clock,            \* seconds since the loop began
    delays,           \* the delays the loop has still to use, the next one first
    replies,          \* what delete_security_group answered, attempt by attempt
    outcome,          \* "none", "trying", "ok", "raised"
    \* the instances of one cluster, as the listings see them
    records,          \* in launch order: [role, spot, state]
    \* _getBlockDeviceMapping on its own
    typeDisks,            \* instanceType.disks
    disk,             \* the loop variable
    bdm,              \* the mapping being built: pairs <<device, ephemeral disk>>
    bdmOut,           \* "none", "building", "returned", "IndexError"
    bdmRet,           \* the mappings handed back to the caller: none, or one
    \* _waitForIP on its own
    cloudAddr,        \* the addresses the instance has at the cloud: [ip, dns, private]
    seenAddr,         \* the addresses of the instance object as last updated
    ipStage,          \* "none", "Running", "IPAssigned"
    polls             \* passes of the loop of _waitForIP

cloudVars   == <<instances, sg, iam, spotOutstanding, ensN>>
opArgs      == <<opName, argBad, ns, zoneEnv, pre>>
opVars      == <<pc, calls, seen, result, ret, opArgs>>
destroyVars == <<discovered, terminable, preserved>>
waitVars    == <<leader, visited>>
addVars     == <<argN, argPre, requested, launched>>
nameVars    == <<nameIn, nsOut>>
\* The variables the cluster lifecycle operations never touch.
acctVars    == <<groups, fleet, spotReqs, roles>>
retryVars   == <<sgState, clock, delays, replies, outcome>>
mapVars     == <<typeDisks, disk, bdm, bdmOut, bdmRet>>
ipVars      == <<cloudAddr, seenAddr, ipStage, polls>>
auxVars     == <<nameVars, acctVars, retryVars, records, mapVars, ipVars>>
vars        == <<cloudVars, opVars, destroyVars, waitVars, addVars, auxVars>>

Ids == 1..Len(instances)

Live(i) == instances[i] \in {"pending", "running"}

\* __getNodesInCluster(ctx, clusterName, both=True): the pending and the
\* running instances of the group, as a set.
GetNodesInCluster == {i \in Ids : Live(i)}

Min(S) == CHOOSE x \in S : \A y \in S : x <= y

Idle == pc \in {"idle", "returned", "raised"}

\* No name is being encoded.
NamesAtRest == nameIn = <<>> /\ nsOut = <<>>

\* No cluster yet, and no operation begun.
ClusterAtRest ==
    /\ instances = <<>>
    /\ sg = NoGroup
    /\ iam = NoIdentity
    /\ spotOutstanding = FALSE
    /\ ensN = 0
    /\ pc = "idle"
    /\ opName = "none"
    /\ argBad = FALSE
    /\ ns = <<>>
    /\ zoneEnv = TRUE
    /\ calls = {}
    /\ seen = {}
    /\ result = "none"
    /\ ret = 0
    /\ pre = [sg |-> NoGroup, iam |-> NoIdentity,
              spot |-> FALSE]
    /\ discovered = {}
    /\ terminable = {}
    /\ preserved = {}
    /\ leader = 0
    /\ visited = <<>>
    /\ argN = 0
    /\ argPre = FALSE
    /\ requested = 0
    /\ launched = {}

\* An account with nothing in it.
AccountEmpty ==
    /\ groups = {}
    /\ fleet = <<>>
    /\ spotReqs = <<>>
    /\ roles = {}

\* No group deletion under way.
RetryAtRest ==
    /\ sgState = "gone"
    /\ clock = 0
    /\ delays = <<>>
    /\ replies = <<>>
    /\ outcome = "none"
    /\ records = <<>>

\* No storage mapping being built.
MappingAtRest ==
    /\ typeDisks = 0
    /\ disk = 0
    /\ bdm = {}
    /\ bdmOut = "none"
    /\ bdmRet = {}

NoAddress == [ip |-> FALSE, dns |-> FALSE, private |-> FALSE]

\* No instance being waited for.
AddressAtRest ==
    /\ cloudAddr = NoAddress
    /\ seenAddr = NoAddress
    /\ ipStage = "none"
    /\ polls = 0

Init ==
    /\ ClusterAtRest
    /\ NamesAtRest
    /\ AccountEmpty
    /\ RetryAtRest
    /\ MappingAtRest
    /\ AddressAtRest

\* What every operation does to its own variables as it begins.
ResetDestroy == discovered' = {} /\ terminable' = {} /\ preserved' = {}
ResetWait    == leader' = 0 /\ visited' = <<>>
ResetAdd     == argN' = 0 /\ argPre' = FALSE /\ requested' = 0 /\ launched' = {}

\* The operation raises: nothing more of it runs.
Raise(e) == pc' = "raised" /\ result' = e

BadName(name) ==
    \E i \in 1..Len(name) : name[i] \in {"A", "_"}

\* The cluster names an operation is given: the cluster's own, or a
\* malformed one.
NameInputs == {TheCluster, <<"A">>, <<"a", "_", "a">>, <<"/", "A", "_">>}

\* The numbers of ephemeral disks of the machine types tried: none, as many
\* as there are device slots, one more.
DiskInputs == {0, NumDeviceSlots, NumDeviceSlots + 1}


\* --------------------------------------------------------------- the cloud

\* A pending instance starts running.
InstRun(i) ==
    /\ UNCHANGED auxVars
    /\ i \in Ids
    /\ instances[i] = "pending"
    /\ instances' = [instances EXCEPT ![i] = "running"]
    /\ UNCHANGED <<sg, iam, spotOutstanding, ensN, opVars, destroyVars, waitVars, addVars>>

\* An instance fails to start, is reclaimed (spot) or is shut down from outside.
InstDie(i) ==
    /\ UNCHANGED auxVars
    /\ i \in Ids
    /\ Live(i)
    /\ instances' = [instances EXCEPT ![i] = "terminated"]
    /\ UNCHANGED <<sg, iam, spotOutstanding, ensN, opVars, destroyVars, waitVars, addVars>>

\* ------------------------------------------------------------ identity

\* _getProfileARN on the cluster's own role and profile: the role is set up,
\* the profile fetched or created, the role attached unless it already is.
GetProfileARN(i) ==
    [iam   |-> [role |-> TRUE, profile |-> TRUE, attached |-> {OwnRole}],
     calls |-> {"setup_iam_ec2_role", "get_instance_profile"}
               \cup (IF i.profile THEN {} ELSE {"create_instance_profile"})
               \cup (IF i.profile /\ i.attached = {OwnRole}
                     THEN {} ELSE {"add_role_to_instance_profile"})]

\* The IAM calls of one pass of the loop of _deleteIAMProfiles, in order.
IamCalls == <<"get_instance_profile", "remove_role_from_instance_profile",
              "list_role_policies", "delete_role_policy", "delete_role",
              "delete_instance_profile">>

\* What the teardown notes when a call answers 404.
NotFoundAt == [get_instance_profile              |-> "404 get_instance_profile",
               remove_role_from_instance_profile |-> "404 remove_role_from_instance_profile",
               list_role_policies                |-> "404 list_role_policies",
               delete_role_policy                |-> "404 delete_role_policy",
               delete_role                       |-> "404 delete_role",
               delete_instance_profile           |-> "404 delete_instance_profile"]

\* The call that answers 404 because another party removed its object just
\* before it, or "none".
GoneInputs == {"none"} \cup {IamCalls[k] : k \in 1..Len(IamCalls)}

\* _deleteIAMProfiles over n instances, all bound to the cluster's profile.
\* i: the role and profile as they are when the function begins.  gone: the
\* call of the first pass whose object another party removed just before it
\* (the profile before get_instance_profile, remove_role_from_instance_profile
\* and delete_instance_profile, the role before list_role_policies and
\* delete_role, the policy before delete_role_policy).  Line 306: a 404 on
\* get_instance_profile returns from the whole function.  Line 314: a profile
\* without exactly one role has no roles.member.role_name.  Line 322:
\* list_role_policies stands outside every try, its 404 is raised.
RECURSIVE DeleteIAMProfiles(_, _, _, _, _)
DeleteIAMProfiles(n, i, c, s, gone) ==
    IF n = 0 THEN [iam |-> i, calls |-> c, seen |-> s, err |-> "none"]
    ELSE IF ~i.profile \/ gone = "get_instance_profile"
    THEN [iam   |-> [i EXCEPT !.profile = FALSE, !.attached = {}],
          calls |-> c \cup {"get_instance_profile"},
          seen  |-> s \cup {NotFoundAt.get_instance_profile},
          err   |-> "none"]
    ELSE IF Cardinality(i.attached) # 1
    THEN [iam |-> i, calls |-> c \cup {"get_instance_profile"}, seen |-> s,
          err |-> "TypeError"]
    ELSE LET role  == CHOOSE r \in i.attached : TRUE
             after == [role |-> i.role /\ role # OwnRole, profile |-> FALSE, attached |-> {}]
         IN  IF gone = "list_role_policies"
             THEN [iam   |-> [after EXCEPT !.profile = TRUE],
                   calls |-> c \cup {IamCalls[k] : k \in 1..3},
                   seen  |-> s \cup {NotFoundAt.list_role_policies},
                   err   |-> "BotoServerError"]
             ELSE DeleteIAMProfiles(n - 1, after,
                      c \cup {IamCalls[k] : k \in 1..Len(IamCalls)},
                      s \cup (IF gone = "none" THEN {} ELSE {NotFoundAt[gone]})
                        \cup (IF gone = "remove_role_from_instance_profile"
                              THEN {NotFoundAt.delete_instance_profile} ELSE {}),
                      "none")

\* ------------------------------------------------------ _createSecurityGroup

\* _createSecurityGroup with 'already exists' raised like any other error.
CreateSecurityGroupStrict(group, createFails, authorized) ==
    IF createFails
    THEN [sg |-> group, err |-> "EC2Error", seen |-> {}, calls |-> {"create_security_group"}]
    ELSE IF group.exists
    THEN [sg |-> group, err |-> "EC2Error", seen |-> {"already_exists"},
          calls |-> {"create_security_group"}]
    ELSE [sg    |-> [exists |-> TRUE,
                     rules  |-> {AuthorizeOrder[j] : j \in 1..authorized}],
          err   |-> IF authorized = Len(AuthorizeOrder) THEN "none" ELSE "EC2Error",
          seen  |-> {},
          calls |-> {"create_security_group", "authorize_security_group"}]

\* createFails: create_security_group fails with an error other than
\* 'already exists'.  authorized: how many of the three web.authorize calls
\* succeed before one raises (its retries exhausted, or an error the retry
\* predicate does not cover); 3 when none does.
CreateSecurityGroup(group, createFails, authorized) ==
    IF createFails
    THEN [sg |-> group, err |-> "EC2Error", seen |-> {}, calls |-> {"create_security_group"}]
    ELSE IF group.exists
    THEN [sg |-> group, err |-> "none", seen |-> {"already_exists"},
          calls |-> {"create_security_group"}]
    ELSE [sg    |-> [exists |-> TRUE,
                     rules  |-> {AuthorizeOrder[j] : j \in 1..authorized}],
          err   |-> IF authorized = Len(AuthorizeOrder) THEN "none" ELSE "EC2Error",
          seen  |-> {},
          calls |-> {"create_security_group", "authorize_security_group"}]

\* ------------------------------------------------------------ launchCluster

\* launchCluster, line 219: the context is built before anything else.
LaunchCluster(name, zoneGiven, zoneFound) ==
    /\ UNCHANGED auxVars
    /\ Idle
    /\ name = TheCluster => Len(instances) < MaxInst
    /\ LET ctx == BuildContext(name, zoneGiven, zoneFound) IN
         /\ calls' = IF ctx.lookup THEN {"zone_lookup"} ELSE {}
         /\ ns' = ctx.ns
         /\ IF ctx.err = "none"
            THEN pc' = "l_profile" /\ result' = "none"
            ELSE Raise(ctx.err)
    /\ opName' = "launch"
    /\ argBad' = BadName(name)
    /\ zoneEnv' = zoneFound
    /\ seen' = {}
    /\ ret' = 0
    /\ pre' = [sg |-> sg, iam |-> iam, spot |-> spotOutstanding]
    /\ ResetDestroy /\ ResetWait /\ ResetAdd
    /\ UNCHANGED cloudVars

\* line 220.
LaunchGetProfileARN(fails) ==
    /\ UNCHANGED auxVars
    /\ pc = "l_profile"
    /\ IF fails
       THEN /\ Raise("IAMError")
            /\ calls' = calls \cup {"setup_iam_ec2_role"}
            /\ UNCHANGED iam
       ELSE /\ iam' = GetProfileARN(iam).iam
            /\ calls' = calls \cup GetProfileARN(iam).calls
            /\ pc' = "l_sg"
            /\ UNCHANGED result
    /\ UNCHANGED <<instances, sg, spotOutstanding, ensN, seen, ret, opArgs,
                   destroyVars, waitVars, addVars>>

\* line 222.
LaunchCreateSecurityGroup(createFails, authorized) ==
    /\ UNCHANGED auxVars
    /\ pc = "l_sg"
    /\ LET r == CreateSecurityGroup(sg, createFails, authorized) IN
         /\ sg' = r.sg
         /\ calls' = calls \cup r.calls
         /\ seen' = seen \cup r.seen
         /\ IF r.err = "none"
            THEN /\ pc' = "l_inst"
                 /\ ensN' = IF ~sg.exists THEN 1 ELSE IF ensN >= 1 THEN 2 ELSE 0
                 /\ UNCHANGED result
            ELSE /\ Raise(r.err)
                 /\ ensN' = IF r.sg = sg THEN ensN ELSE 0
    /\ UNCHANGED <<instances, iam, spotOutstanding, ret, opArgs,
                   destroyVars, waitVars, addVars>>

\* lines 223-245: the storage mapping, then one on-demand instance or one
\* spot request.  create_spot_instances raises when no request becomes active.
LaunchCreateInstance(spot, disks, fulfilled) ==
    /\ UNCHANGED auxVars
    /\ pc = "l_inst"
    /\ IF ~BlockDeviceMappingOk(disks)
       THEN /\ Raise("IndexError")
            /\ UNCHANGED <<instances, spotOutstanding, calls, launched>>
       ELSE IF ~spot
       THEN /\ instances' = Append(instances, "pending")
            /\ launched' = {Len(instances) + 1}
            /\ calls' = calls \cup {"run_instances"}
            /\ pc' = "l_leader"
            /\ UNCHANGED <<spotOutstanding, result>>
       ELSE /\ spotOutstanding' = TRUE
            /\ calls' = calls \cup {"request_spot_instances", "create_tags"}
            /\ IF fulfilled
               THEN /\ instances' = Append(instances, "pending")
                    /\ launched' = {Len(instances) + 1}
                    /\ pc' = "l_leader"
                    /\ UNCHANGED result
               ELSE /\ Raise("SpotError")
                    /\ UNCHANGED <<instances, launched>>
    /\ UNCHANGED <<sg, iam, ensN, seen, ret, opArgs,
                   destroyVars, waitVars, argN, argPre, requested>>

StageOrder ==
    <<"Pending", "Running", "IPAssigned", "SSHReachable", "DockerRunning", "ApplianceRunning">>

Stage == IF visited = <<>> THEN "none" ELSE visited[Len(visited)]

\* _getLeader(clusterName, wait=True), lines 138-141: no zone is passed on,
\* so the zone is looked up; the leader is the first of the listing sorted by
\* launch time, and instances[0] of an empty listing raises IndexError.
GetLeader ==
    /\ UNCHANGED auxVars
    /\ pc = "l_leader"
    /\ calls' = calls \cup {"zone_lookup"} \cup (IF zoneEnv THEN {"get_only_instances"} ELSE {})
    /\ IF ~zoneEnv
       THEN Raise("ZoneError") /\ UNCHANGED waitVars
       ELSE IF GetNodesInCluster = {}
       THEN Raise("IndexError") /\ UNCHANGED waitVars
       ELSE /\ leader' = Min(GetNodesInCluster)
            /\ visited' = <<"Pending">>
            /\ pc' = "l_wait"
            /\ UNCHANGED result
    /\ UNCHANGED <<cloudVars, seen, ret, opArgs, destroyVars, addVars>>

Enter(stage) ==
    /\ UNCHANGED auxVars
    /\ visited' = Append(visited, stage)
    /\ UNCHANGED <<cloudVars, opVars, destroyVars, leader, addVars>>

RaiseInWait(e) ==
    /\ UNCHANGED auxVars
    /\ Raise(e)
    /\ UNCHANGED <<cloudVars, calls, seen, ret, opArgs,
                   destroyVars, waitVars, addVars>>

\* wait_transition(leader, {'pending'}, 'running'), line 144: polls while the
\* instance is pending, and raises when it is found in any state but running.
WaitTransition ==
    /\ pc = "l_wait" /\ Stage = "Pending"
    /\ \/ instances[leader] = "pending" /\ UNCHANGED vars
       \/ instances[leader] = "running" /\ Enter("Running")
       \/ instances[leader] \notin {"pending", "running"} /\ RaiseInWait("UnexpectedResourceState")

\* _waitForIP, lines 167-179.
WaitForIP(hasAddress) ==
    /\ pc = "l_wait" /\ Stage = "Running"
    /\ IF hasAddress THEN Enter("IPAssigned") ELSE UNCHANGED vars

\* _waitForSSHPort letting socket.error out.
WaitForSSHPortRaises(connected) ==
    /\ pc = "l_wait" /\ Stage = "IPAssigned"
    /\ IF connected THEN Enter("SSHReachable") ELSE RaiseInWait("SocketError")

\* _waitForSSHPort, lines 197-215: socket.error is swallowed and the connect
\* tried again.
WaitForSSHPort(connected) ==
    /\ pc = "l_wait" /\ Stage = "IPAssigned"
    /\ IF connected THEN Enter("SSHReachable") ELSE UNCHANGED vars

\* _sshInstance, lines 120-123: check_output raises CalledProcessError when
\* the ssh command exits non-zero; its callers do not catch it.
\* _waitForDockerDaemon, lines 182-194.
WaitForDockerDaemon(probe) ==
    /\ pc = "l_wait" /\ Stage = "SSHReachable"
    /\ CASE probe = "listed"    -> Enter("DockerRunning")
         [] probe = "notListed" -> UNCHANGED vars
         [] probe = "sshFailed" -> RaiseInWait("CalledProcessError")

\* _getLeader without its call of _waitForDockerDaemon.
WaitForApplianceNoDocker(probe) ==
    /\ pc = "l_wait" /\ Stage \in {"SSHReachable", "DockerRunning"}
    /\ CASE probe = "listed" ->
              /\ visited' = Append(visited, "ApplianceRunning")
              /\ pc' = "returned"
              /\ result' = "ok"
              /\ ret' = leader
              /\ UNCHANGED <<cloudVars, calls, seen, opArgs, destroyVars, leader, addVars,
                             auxVars>>
         [] probe = "notListed" -> UNCHANGED vars
         [] probe = "sshFailed" -> RaiseInWait("CalledProcessError")

\* _waitForAppliance, lines 155-164, and the return of _getLeader and of
\* launchCluster, lines 152 and 246.
WaitForAppliance(probe) ==
    /\ pc = "l_wait" /\ Stage = "DockerRunning"
    /\ CASE probe = "listed" ->
              /\ visited' = Append(visited, "ApplianceRunning")
              /\ pc' = "returned"
              /\ result' = "ok"
              /\ ret' = leader
              /\ UNCHANGED <<cloudVars, calls, seen, opArgs,
                             destroyVars, leader, addVars, auxVars>>
         [] probe = "notListed" -> UNCHANGED vars
         [] probe = "sshFailed" -> RaiseInWait("CalledProcessError")

Probes == {"listed", "notListed", "sshFailed"}

\* ----------------------------------------------------------------- _addNodes

\* wait_instances_running(ec2, instances) of cgcloud.lib.ec2 is a generator
\* function: the call at line 377 builds a generator that _addNodes never
\* iterates, so none of its body runs and the call is over at once, whatever
\* state the instances are in.
WaitInstancesRunning(ids) == TRUE

\* _addNodes, lines 350-376, on a provisioner constructed on a running
\* instance of the cluster.  The on-demand branch passes num_instances=1 and
\* keeps the list of instances run_instances returns.  The spot branch passes
\* num_instances=numNodes and keeps list(create_spot_instances(...)): the
\* generator yields one list of instances per polling round in which requests
\* became active (batches of them, 1 <= batches <= active), and raises
\* RuntimeError when no request became active.  ret holds
\* len(instancesLaunched).
AddNodes(n, preemptable, disks, iamFails, active, batches) ==
    /\ UNCHANGED auxVars
    /\ Idle
    /\ \E i \in Ids : instances[i] = "running"
    /\ Len(instances) < MaxInst
    /\ Len(instances) + active <= MaxInst
    /\ opName' = "addNodes"
    /\ argBad' = FALSE
    /\ ns' = ToNameSpace(TheCluster).ns
    /\ zoneEnv' = TRUE
    /\ seen' = {}
    /\ pre' = [sg |-> sg, iam |-> iam, spot |-> spotOutstanding]
    /\ argN' = n
    /\ argPre' = preemptable
    /\ ResetDestroy /\ ResetWait
    /\ UNCHANGED <<sg, ensN>>
    /\ IF ~BlockDeviceMappingOk(disks)
       THEN /\ Raise("IndexError")
            /\ calls' = {} /\ ret' = 0 /\ requested' = 0 /\ launched' = {}
            /\ UNCHANGED <<instances, iam, spotOutstanding>>
       ELSE IF iamFails
       THEN /\ Raise("IAMError")
            /\ calls' = {"setup_iam_ec2_role"} /\ ret' = 0 /\ requested' = 0 /\ launched' = {}
            /\ UNCHANGED <<instances, iam, spotOutstanding>>
       ELSE /\ iam' = GetProfileARN(iam).iam
            /\ IF ~preemptable
               THEN /\ requested' = 1
                    /\ calls' = GetProfileARN(iam).calls \cup {"run_instances"}
                    /\ instances' = Append(instances, "pending")
                    /\ launched' = {Len(instances) + 1}
                    /\ ret' = 1
                    /\ pc' = "a_wait" /\ result' = "none"
                    /\ UNCHANGED spotOutstanding
               ELSE /\ requested' = n
                    /\ calls' = GetProfileARN(iam).calls
                                \cup {"request_spot_instances", "create_tags"}
                                \cup (IF active > 0 THEN {"get_only_instances"} ELSE {})
                    /\ spotOutstanding' = TRUE
                    /\ instances' = instances \o [j \in 1..active |-> "pending"]
                    /\ launched' = (Len(instances) + 1)..(Len(instances) + active)
                    /\ IF active = 0
                       THEN Raise("SpotError") /\ ret' = 0
                       ELSE pc' = "a_wait" /\ result' = "none" /\ ret' = batches

\* lines 377-379.
AddNodesReturn ==
    /\ UNCHANGED auxVars
    /\ pc = "a_wait"
    /\ WaitInstancesRunning(launched)
    /\ pc' = "returned"
    /\ result' = "ok"
    /\ UNCHANGED <<cloudVars, calls, seen, ret, opArgs,
                   destroyVars, waitVars, addVars>>

\* ------------------------------------------------------------ destroyCluster

\* awsFilterImpairedNodes(instances, ec2): every instance, or with the debug
\* mode on every instance but the impaired ones.
FilterImpaired(nodes, debug, impaired) ==
    IF debug THEN nodes \ impaired ELSE nodes

\* The gate opened as soon as something was terminated.
GroupDeleteGateAnyTerminated(all, toTerminate) == toTerminate # {} \/ all = {}

\* line 262: len(instances) == len(instancesToTerminate).
GroupDeleteGate(all, toTerminate) == Cardinality(all) = Cardinality(toTerminate)

\* lines 253-257: the context, the inventory snapshot, and the cancel of the
\* cluster's spot requests when there are any.
DestroyCluster(name, zoneGiven, zoneFound) ==
    /\ UNCHANGED auxVars
    /\ Idle
    /\ LET ctx == BuildContext(name, zoneGiven, zoneFound) IN
         /\ ns' = ctx.ns
         /\ IF ctx.err = "none"
            THEN /\ pc' = "d_terminate" /\ result' = "none"
                 /\ discovered' = GetNodesInCluster
                 /\ calls' = (IF ctx.lookup THEN {"zone_lookup"} ELSE {})
                             \cup {"get_only_instances", "get_all_spot_instance_requests",
                                   "get_all_tags"}
                             \cup (IF spotOutstanding
                                   THEN {"cancel_spot_instance_requests"} ELSE {})
                 /\ spotOutstanding' = FALSE
            ELSE /\ Raise(ctx.err)
                 /\ discovered' = {}
                 /\ calls' = IF ctx.lookup THEN {"zone_lookup"} ELSE {}
                 /\ UNCHANGED spotOutstanding
    /\ opName' = "destroy"
    /\ argBad' = BadName(name)
    /\ zoneEnv' = zoneFound
    /\ seen' = {}
    /\ ret' = 0
    /\ pre' = [sg |-> sg, iam |-> iam, spot |-> spotOutstanding]
    /\ terminable' = {} /\ preserved' = {}
    /\ ResetWait /\ ResetAdd
    /\ UNCHANGED <<instances, sg, iam, ensN>>

\* lines 258-261: the instances to terminate, their IAM profiles, the
\* terminate call.
DestroyTerminate(debug, impaired, gone) ==
    /\ UNCHANGED auxVars
    /\ pc = "d_terminate"
    /\ LET toTerminate == FilterImpaired(discovered, debug, impaired)
           d == DeleteIAMProfiles(Cardinality(toTerminate), iam, {}, {}, gone)
       IN  /\ terminable' = toTerminate
           /\ preserved' = IF debug THEN impaired ELSE {}
           /\ IF toTerminate = {}
              THEN /\ pc' = "d_group"
                   /\ UNCHANGED <<instances, iam, calls, seen, result>>
              ELSE /\ iam' = d.iam
                   /\ seen' = seen \cup d.seen
                   /\ IF d.err = "none"
                      THEN /\ calls' = calls \cup d.calls \cup {"terminate_instances"}
                           /\ instances' = [i \in Ids |-> IF i \in toTerminate
                                                          THEN "terminated"
                                                          ELSE instances[i]]
                           /\ pc' = "d_group"
                           /\ UNCHANGED result
                      ELSE /\ calls' = calls \cup d.calls
                           /\ Raise(d.err)
                           /\ UNCHANGED instances
    /\ UNCHANGED <<sg, spotOutstanding, ensN, ret, opArgs,
                   discovered, waitVars, addVars>>

\* destroyCluster's group deletion with InvalidGroup.NotFound raised like
\* any other error.
DestroyDeleteGroupNotFoundRaised(deleted) ==
    /\ UNCHANGED auxVars
    /\ pc = "d_group"
    /\ IF GroupDeleteGate(discovered, terminable)
       THEN /\ calls' = calls \cup {"delete_security_group"}
            /\ IF ~sg.exists
               THEN /\ seen' = seen \cup {"InvalidGroup.NotFound"}
                    /\ Raise("EC2Error")
                    /\ UNCHANGED <<sg, ensN>>
               ELSE IF deleted
               THEN /\ sg' = NoGroup
                    /\ ensN' = 0
                    /\ pc' = "returned" /\ result' = "ok"
                    /\ UNCHANGED seen
               ELSE /\ Raise("EC2Error")
                    /\ UNCHANGED <<sg, ensN, seen>>
       ELSE /\ pc' = "returned" /\ result' = "ok"
            /\ UNCHANGED <<sg, ensN, calls, seen>>
    /\ UNCHANGED <<instances, iam, spotOutstanding, ret, opArgs,
                   destroyVars, waitVars, addVars>>

\* lines 262-279.  deleted: delete_security_group succeeds, at once or on a
\* retry.  The group being gone already (InvalidGroup.NotFound) is passed
\* over.  failed: the 'dependent object' error outlasts the retry window, or
\* another error is raised.
DestroyDeleteGroup(deleted) ==
    /\ UNCHANGED auxVars
    /\ pc = "d_group"
    /\ IF GroupDeleteGate(discovered, terminable)
       THEN /\ calls' = calls \cup {"delete_security_group"}
            /\ IF ~sg.exists
               THEN /\ seen' = seen \cup {"InvalidGroup.NotFound"}
                    /\ pc' = "returned" /\ result' = "ok"
                    /\ UNCHANGED <<sg, ensN>>
               ELSE IF deleted
               THEN /\ sg' = NoGroup
                    /\ ensN' = 0
                    /\ pc' = "returned" /\ result' = "ok"
                    /\ UNCHANGED seen
               ELSE /\ Raise("EC2Error")
                    /\ UNCHANGED <<sg, ensN, seen>>
       ELSE /\ pc' = "returned" /\ result' = "ok"
            /\ UNCHANGED <<sg, ensN, calls, seen>>
    /\ UNCHANGED <<instances, iam, spotOutstanding, ret, opArgs,
                   destroyVars, waitVars, addVars>>

\* ------------------------------------------------------- the specification

Next ==
    \/ \E i \in 1..MaxInst : InstRun(i)
    \/ \E i \in 1..MaxInst : InstDie(i)
    \/ \E name \in NameInputs, zoneGiven \in BOOLEAN, zoneFound \in BOOLEAN :
          LaunchCluster(name, zoneGiven, zoneFound)
    \/ \E fails \in BOOLEAN : LaunchGetProfileARN(fails)
    \/ \E createFails \in BOOLEAN, authorized \in 0..Len(AuthorizeOrder) :
          LaunchCreateSecurityGroup(createFails, authorized)
    \/ \E spot \in BOOLEAN, disks \in DiskInputs, fulfilled \in BOOLEAN :
          LaunchCreateInstance(spot, disks, fulfilled)
    \/ GetLeader
    \/ WaitTransition
    \/ \E hasAddress \in BOOLEAN : WaitForIP(hasAddress)
    \/ \E connected \in BOOLEAN : WaitForSSHPort(connected)
    \/ \E probe \in Probes : WaitForDockerDaemon(probe)
    \/ \E probe \in Probes : WaitForAppliance(probe)
    \/ \E n \in 1..MaxNodes, preemptable \in BOOLEAN, disks \in DiskInputs, iamFails \in BOOLEAN :
          \E active \in (IF preemptable THEN 0..n ELSE {0}) :
             \E batches \in (IF active = 0 THEN {0} ELSE 1..active) :
                AddNodes(n, preemptable, disks, iamFails, active, batches)
    \/ AddNodesReturn
    \/ \E name \in NameInputs, zoneGiven \in BOOLEAN, zoneFound \in BOOLEAN :
          DestroyCluster(name, zoneGiven, zoneFound)
    \/ \E debug \in BOOLEAN :
          \E impaired \in (IF debug THEN SUBSET discovered ELSE {{}}) :
             DestroyTerminate(debug, impaired, "none")
    \/ \E deleted \in BOOLEAN : DestroyDeleteGroup(deleted)

Spec == Init /\ [][Next]_vars

\* launchCluster alone, with the cloud, under the fairness the readiness
\* wait is claimed for: the polling code keeps running, a pending instance
\* leaves the pending state, and each check that can succeed does in the end.
NextLaunch ==
    \/ \E i \in 1..MaxInst : InstRun(i)
    \/ \E i \in 1..MaxInst : InstDie(i)
    \/ \E name \in NameInputs, zoneGiven \in BOOLEAN, zoneFound \in BOOLEAN :
          LaunchCluster(name, zoneGiven, zoneFound)
    \/ \E fails \in BOOLEAN : LaunchGetProfileARN(fails)
    \/ \E createFails \in BOOLEAN, authorized \in 0..Len(AuthorizeOrder) :
          LaunchCreateSecurityGroup(createFails, authorized)
    \/ \E spot \in BOOLEAN, disks \in DiskInputs, fulfilled \in BOOLEAN :
          LaunchCreateInstance(spot, disks, fulfilled)
    \/ GetLeader
    \/ WaitTransition
    \/ \E hasAddress \in BOOLEAN : WaitForIP(hasAddress)
    \/ \E connected \in BOOLEAN : WaitForSSHPort(connected)
    \/ \E probe \in Probes : WaitForDockerDaemon(probe)
    \/ \E probe \in Probes : WaitForAppliance(probe)

FairSpec ==
    /\ Init
    /\ [][NextLaunch]_vars
    /\ \A i \in 1..MaxInst : WF_vars(InstRun(i))
    /\ WF_vars(WaitTransition)
    /\ WF_vars(WaitForIP(TRUE))
    /\ WF_vars(WaitForSSHPort(TRUE))
    /\ WF_vars(WaitForDockerDaemon("listed"))
    /\ WF_vars(WaitForAppliance("listed"))

\* launchCluster and destroyCluster while another party removes IAM objects
\* of the cluster: any one call of the identity teardown may answer 404.
NextTeardown ==
    \/ NextLaunch
    \/ \E name \in NameInputs, zoneGiven \in BOOLEAN, zoneFound \in BOOLEAN :
          DestroyCluster(name, zoneGiven, zoneFound)
    \/ \E debug \in BOOLEAN :
          \E impaired \in (IF debug THEN SUBSET discovered ELSE {{}}) :
             \E gone \in (IF FilterImpaired(discovered, debug, impaired) = {}
                          THEN {"none"} ELSE GoneInputs) :
                DestroyTerminate(debug, impaired, gone)
    \/ \E deleted \in BOOLEAN : DestroyDeleteGroup(deleted)

SpecTeardown == Init /\ [][NextTeardown]_vars

\* A running instance is stopped from outside: it is stopping, then stopped,
\* and stays a member of its security group.
InstStop(i) ==
    /\ UNCHANGED auxVars
    /\ i \in Ids
    /\ instances[i] = "running"
    /\ instances' = [instances EXCEPT ![i] = "stopped"]
    /\ UNCHANGED <<sg, iam, spotOutstanding, ensN, opVars, destroyVars, waitVars, addVars>>

\* An instance of the group shows up only after destroyCluster took its
\* snapshot at line 254: a spot request of the cluster, open when
\* destroyCluster began, was fulfilled in between.
InstAppear ==
    /\ UNCHANGED auxVars
    /\ opName = "destroy"
    /\ pc \in {"d_terminate", "d_group"}
    /\ pre.spot
    /\ sg.exists
    /\ Len(instances) < MaxInst
    /\ instances' = Append(instances, "pending")
    /\ UNCHANGED <<sg, iam, spotOutstanding, ensN, opVars, destroyVars, waitVars, addVars>>

\* launchCluster and destroyCluster with a cloud in which instances are also
\* stopped and show up late.
NextSweep ==
    \/ NextLaunch
    \/ \E i \in 1..MaxInst : InstStop(i)
    \/ InstAppear
    \/ \E name \in NameInputs, zoneGiven \in BOOLEAN, zoneFound \in BOOLEAN :
          DestroyCluster(name, zoneGiven, zoneFound)
    \/ \E debug \in BOOLEAN :
          \E impaired \in (IF debug THEN SUBSET discovered ELSE {{}}) :
             DestroyTerminate(debug, impaired, "none")
    \/ \E deleted \in BOOLEAN : DestroyDeleteGroup(deleted)

SpecSweep == Init /\ [][NextSweep]_vars

\* ------------------------------------------------- _toNameSpace on its own

\* The characters of a name: "a" for the lowercase letters and digits; '-',
\* '/' and '_' are the ones _toNameSpace looks at.
NameChars == {"a", "-", "/", "_"}

RECURSIVE SeqsOfLen(_, _)
SeqsOfLen(S, n) ==
    IF n = 0 THEN {<<>>}
    ELSE {Append(s, c) : s \in SeqsOfLen(S, n - 1), c \in S}

ClusterNames == UNION {SeqsOfLen(NameChars, n) : n \in 1..MaxNameLen}

InitNames ==
    /\ ClusterAtRest
    /\ AccountEmpty
    /\ RetryAtRest
    /\ MappingAtRest
    /\ AddressAtRest
    /\ nameIn \in ClusterNames \X ClusterNames
    /\ nsOut = <<>>

\* _toNameSpace applied to each of the two names.
Encode ==
    /\ nsOut = <<>>
    /\ nsOut' = <<ToNameSpace(nameIn[1]), ToNameSpace(nameIn[2])>>
    /\ UNCHANGED <<nameIn, cloudVars, opVars, destroyVars, waitVars, addVars, acctVars, retryVars, records, mapVars, ipVars>>

NextNames == Encode

SpecNames == InitNames /\ [][NextNames]_vars

\* ------------------------------------------ several clusters in one account

\* The same operations, run whole, on an account that holds several clusters:
\* what each creates, how it is marked, and how the operations find what
\* belongs to a cluster.  The readiness wait and the call-by-call failures are
\* in the actions above.

\* The clusters of the account, by name (both names pass _toNameSpace).
Tenants == {<<"a", "-", "a">>, <<"a", "/", "a">>}

\* _getProfileARN, lines 462-465: the role is '-toil' in the namespace of the
\* context, so its name is a function of the namespace alone; the instance
\* profile has the name of the role.
RoleName(namespace) == namespace \o <<"-", "t", "o", "i", "l">>

\* The value of the clusterName tag of a resource that has none.
NoTag == <<>>

FleetIds == 1..Len(fleet)
ReqIds == 1..Len(spotReqs)

\* The instance a launch specification of launchCluster (lines 229-232) or
\* _addNodes (lines 357-360) makes: the security group is the cluster name, the
\* profile is the cluster's; the specification holds no tag.
NewNode(c, req) ==
    [group |-> c, spot |-> req, tag |-> NoTag,
     profile |-> RoleName(ToNameSpace(c).ns), state |-> "pending"]

\* A terminated instance: no listing of the provisioner returns it any more.
Terminated ==
    [group |-> NoTag, spot |-> 0, tag |-> NoTag, profile |-> <<>>, state |-> "terminated"]

\* create_spot_instances(..., tags={'clusterName': c}, num_instances=n): the
\* requests are filed, then tagged; active of them become active.
NewReqs(c, n, tagged, active) ==
    [k \in 1..n |-> [by |-> c,
                     tag |-> IF tagged THEN c ELSE NoTag,
                     state |-> IF tagged /\ k <= active THEN "active" ELSE "open"]]

\* __getNodesInCluster with the listings filtered by the clusterName tag.
NodesInClusterByTag(c, preemptable, both) ==
    LET all == {i \in FleetIds : fleet[i].tag = c /\ fleet[i].state \in {"pending", "running"}}
    IN  IF ~preemptable /\ ~both THEN {x \in all : fleet[x].spot = 0}
        ELSE IF preemptable /\ ~both THEN {x \in all : fleet[x].spot # 0}
        ELSE all

\* __getNodesInCluster, lines 395-406: two listings filtered by the name of
\* the security group and the lifecycle state, united, then filtered by the
\* spot request id.
NodesInCluster(c, preemptable, both) ==
    LET pendingInstances == {i \in FleetIds : fleet[i].group = c /\ fleet[i].state = "pending"}
        runningInstances == {i \in FleetIds : fleet[i].group = c /\ fleet[i].state = "running"}
        all == pendingInstances \cup runningInstances
    IN  IF ~preemptable /\ ~both THEN {x \in all : fleet[x].spot = 0}
        ELSE IF preemptable /\ ~both THEN {x \in all : fleet[x].spot # 0}
        ELSE all

\* How launchCluster(instanceType, keyName, c, spotBid) ends.  tagged:
\* create_tags on the new request succeeds; fulfilled: the request becomes
\* active.
LaunchResult(spot, tagged, fulfilled) ==
    IF ~spot \/ (tagged /\ fulfilled) THEN "ok"
    ELSE IF tagged THEN "SpotError" ELSE "EC2Error"

\* launchCluster as a whole.
LaunchAcct(c, spot, tagged, fulfilled) ==
    /\ Len(fleet) < MaxFleet
    /\ spot => Len(spotReqs) < MaxReqs
    /\ roles' = roles \cup {RoleName(ToNameSpace(c).ns)}
    /\ groups' = groups \cup {c}
    /\ IF ~spot
       THEN /\ fleet' = Append(fleet, NewNode(c, 0))
            /\ UNCHANGED spotReqs
       ELSE /\ spotReqs' = spotReqs \o NewReqs(c, 1, tagged, IF fulfilled THEN 1 ELSE 0)
            /\ fleet' = IF LaunchResult(spot, tagged, fulfilled) = "ok"
                        THEN Append(fleet, NewNode(c, Len(spotReqs) + 1))
                        ELSE fleet
    /\ UNCHANGED <<cloudVars, opVars, destroyVars, waitVars, addVars, nameVars, retryVars, records, mapVars, ipVars>>

\* _addNodes(instances, n, preemptable) as a whole, on the provisioner that
\* runs on instance p: its clusterName is the security group of p (line 45).
AddNodesAcct(p, n, preemptable, tagged, active) ==
    /\ p \in FleetIds
    /\ fleet[p].state = "running"
    /\ Len(fleet) + (IF preemptable THEN active ELSE 1) <= MaxFleet
    /\ preemptable => Len(spotReqs) + n <= MaxReqs
    /\ LET c == fleet[p].group IN
         /\ roles' = roles \cup {RoleName(ToNameSpace(c).ns)}
         /\ IF ~preemptable
            THEN /\ fleet' = Append(fleet, NewNode(c, 0))
                 /\ UNCHANGED spotReqs
            ELSE /\ spotReqs' = spotReqs \o NewReqs(c, n, tagged, active)
                 /\ fleet' = fleet \o [k \in 1..(IF tagged THEN active ELSE 0) |->
                                          NewNode(c, Len(spotReqs) + k)]
    /\ UNCHANGED <<groups, cloudVars, opVars, destroyVars, waitVars, addVars, nameVars, retryVars, records, mapVars, ipVars>>

\* _getSpotRequestIDs(ctx, c), lines 424-428.  tagsReply: what get_all_tags
\* answers to the filter {'tag:': {'clusterName': c}} of line 426, which names
\* no tag key: an error, no tag, or the tags of the cluster.  The value
\* returned holds the requests picked, as objects, not their ids.
GetSpotRequestIDs(c, tagsReply) ==
    LET requests == ReqIds
        idsToCancel == IF tagsReply = "tagged"
                       THEN {k \in ReqIds : spotReqs[k].tag = c} ELSE {}
    IN  {[kind |-> "request", id |-> k] : k \in requests \cap idsToCancel}

\* destroyCluster(c) gets past its listing of spot requests and their cancel.
DestroyListed(c, tagsReply, cancelAccepted) ==
    /\ tagsReply # "error"
    /\ GetSpotRequestIDs(c, tagsReply) # {} => cancelAccepted

\* How destroyCluster(c) ends.  cancelAccepted: the cloud takes the request
\* objects for ids.  deleted: delete_security_group succeeds within the retry
\* window.
DestroyResult(c, tagsReply, cancelAccepted, debug, impaired, deleted) ==
    LET all == NodesInCluster(c, FALSE, TRUE)
        toTerminate == FilterImpaired(all, debug, impaired)
    IN  IF ~DestroyListed(c, tagsReply, cancelAccepted) THEN "EC2Error"
        ELSE IF GroupDeleteGate(all, toTerminate) /\ c \in groups /\ ~deleted THEN "EC2Error"
        ELSE "ok"

\* destroyCluster(c) as a whole.
DestroyAcct(c, tagsReply, cancelAccepted, debug, impaired, deleted) ==
    LET all == NodesInCluster(c, FALSE, TRUE)
        spotIDs == GetSpotRequestIDs(c, tagsReply)
        toTerminate == FilterImpaired(all, debug, impaired)
    IN
    /\ impaired \subseteq all
    /\ IF ~DestroyListed(c, tagsReply, cancelAccepted)
       THEN UNCHANGED <<groups, fleet, spotReqs, roles>>
       ELSE /\ spotReqs' = [k \in ReqIds |->
                              IF [kind |-> "request", id |-> k] \in spotIDs
                              THEN [spotReqs[k] EXCEPT !.state = "cancelled"]
                              ELSE spotReqs[k]]
            /\ roles' = roles \ {fleet[i].profile : i \in toTerminate}
            /\ fleet' = [i \in FleetIds |-> IF i \in toTerminate THEN Terminated ELSE fleet[i]]
            /\ groups' = IF GroupDeleteGate(all, toTerminate) /\ deleted
                         THEN groups \ {c} ELSE groups
    /\ UNCHANGED <<cloudVars, opVars, destroyVars, waitVars, addVars, nameVars, retryVars, records, mapVars, ipVars>>

\* A pending instance starts running.
NodeRun(i) ==
    /\ i \in FleetIds
    /\ fleet[i].state = "pending"
    /\ fleet' = [fleet EXCEPT ![i].state = "running"]
    /\ UNCHANGED <<groups, spotReqs, roles,
                   cloudVars, opVars, destroyVars, waitVars, addVars, nameVars, retryVars, records, mapVars, ipVars>>

\* An open spot request is fulfilled: the cloud launches the instance of the
\* launch specification held in the request.
ReqFulfil(k) ==
    /\ k \in ReqIds
    /\ spotReqs[k].state = "open"
    /\ Len(fleet) < MaxFleet
    /\ spotReqs' = [spotReqs EXCEPT ![k].state = "active"]
    /\ fleet' = Append(fleet, NewNode(spotReqs[k].by, k))
    /\ UNCHANGED <<groups, roles,
                   cloudVars, opVars, destroyVars, waitVars, addVars, nameVars, retryVars, records, mapVars, ipVars>>

NextAcct ==
    \/ \E i \in 1..MaxFleet : NodeRun(i)
    \/ \E k \in 1..MaxReqs : ReqFulfil(k)
    \/ \E c \in Tenants, spot \in BOOLEAN :
          \E tagged \in (IF spot THEN BOOLEAN ELSE {TRUE}) :
             \E fulfilled \in (IF spot /\ tagged THEN BOOLEAN ELSE {TRUE}) :
                LaunchAcct(c, spot, tagged, fulfilled)
    \/ \E p \in 1..MaxFleet, n \in 1..MaxNodes, preemptable \in BOOLEAN :
          \E tagged \in (IF preemptable THEN BOOLEAN ELSE {TRUE}) :
             \E active \in (IF preemptable /\ tagged THEN 0..n ELSE {0}) :
                AddNodesAcct(p, n, preemptable, tagged, active)
    \/ \E c \in Tenants, tagsReply \in {"error", "none", "tagged"}, debug \in BOOLEAN :
          \E cancelAccepted \in (IF GetSpotRequestIDs(c, tagsReply) # {}
                                 THEN BOOLEAN ELSE {TRUE}) :
             \E impaired \in (IF debug /\ DestroyListed(c, tagsReply, cancelAccepted)
                              THEN SUBSET NodesInCluster(c, FALSE, TRUE) ELSE {{}}) :
                \E deleted \in (IF /\ DestroyListed(c, tagsReply, cancelAccepted)
                                   /\ c \in groups
                                   /\ GroupDeleteGate(NodesInCluster(c, FALSE, TRUE),
                                                      FilterImpaired(NodesInCluster(c, FALSE, TRUE),
                                                                     debug, impaired))
                                THEN BOOLEAN ELSE {TRUE}) :
                   DestroyAcct(c, tagsReply, cancelAccepted, debug, impaired, deleted)

SpecAcct == Init /\ [][NextAcct]_vars

\* ------------------------------ the retry around delete_security_group

\* destroyCluster, lines 262-273, attempt by attempt, with the time that
\* passes: the calls take time, the loop sleeps between attempts.

\* retry(timeout=300, ...), line 264.
Timeout == 300

\* The default delays of retry(): each is used once, the last one ever after.
DefaultDelays == <<0, 1, 1, 4, 16, 64>>

\* How long a call of delete_security_group may take, in seconds.
CallTimes == {0, 30}

Deleted == [status |-> 200, body |-> "", code |-> ""]

\* The answers of delete_security_group the loop can meet: done; the group
\* has a dependent object; there is no such group; a refusal of another
\* kind; a failure of the service.
DeleteReplies ==
    {Deleted,
     [status |-> 400, body |-> "dependent object", code |-> "DependencyViolation"],
     [status |-> 400, body |-> "not found", code |-> "InvalidGroup.NotFound"],
     [status |-> 400, body |-> "not permitted", code |-> "UnauthorizedOperation"],
     [status |-> 503, body |-> "dependent object", code |-> "Unavailable"]}

\* What the cloud answers for the group as it is, unless it fails otherwise.
ReplyFor(state) ==
    CHOOSE r \in DeleteReplies :
        r.code = (CASE state = "in use" -> "DependencyViolation"
                    [] state = "free"   -> ""
                    [] state = "gone"   -> "InvalidGroup.NotFound")

\* expectedShutdownErrors with the status alone looked at.
ExpectedShutdownErrorsAnyBody(e) ==
    e.status = 400

\* expectedShutdownErrors, lines 250-251.
ExpectedShutdownErrors(e) ==
    e.status = 400 /\ e.body = "dependent object"

\* destroyCluster reaches line 264 with the group in some state: the loop
\* begins, expiration is set.
InitRetry ==
    /\ ClusterAtRest
    /\ NamesAtRest
    /\ AccountEmpty
    /\ sgState \in {"in use", "free", "gone"}
    /\ clock = 0
    /\ delays = DefaultDelays
    /\ replies = <<>>
    /\ outcome = "trying"
    /\ records = <<>>
    /\ MappingAtRest
    /\ AddressAtRest

\* One attempt: the call of line 267, the except clause of lines 268-272,
\* then what retry() makes of an error that got out: sleep and go round
\* again if the predicate holds and the delay ends before expiration, raise
\* otherwise.  took: the time the call takes; reply: its answer.
DeleteSecurityGroup(took, reply) ==
    /\ outcome = "trying"
    /\ reply \in {ReplyFor(sgState)} \cup {r \in DeleteReplies : r.status = 503 \/ r.code = "UnauthorizedOperation"}
    /\ replies' = Append(replies, reply)
    /\ LET now == clock + took
           delay == Head(delays)
       IN  IF reply = Deleted
           THEN /\ sgState' = "gone"
                /\ outcome' = "ok"
                /\ clock' = now
                /\ UNCHANGED delays
           ELSE IF reply.code = "InvalidGroup.NotFound"
           THEN /\ outcome' = "ok"
                /\ clock' = now
                /\ UNCHANGED <<sgState, delays>>
           ELSE IF now + delay < Timeout /\ ExpectedShutdownErrors(reply)
           THEN /\ clock' = now + delay
                /\ delays' = IF Len(delays) > 1 THEN Tail(delays) ELSE delays
                /\ UNCHANGED <<sgState, outcome>>
           ELSE /\ outcome' = "raised"
                /\ clock' = now
                /\ UNCHANGED <<sgState, delays>>
    /\ UNCHANGED <<cloudVars, opVars, destroyVars, waitVars, addVars, nameVars, acctVars, records, mapVars, ipVars>>

\* The terminated instances let go of the group.
GroupFreed ==
    /\ outcome = "trying"
    /\ sgState = "in use"
    /\ sgState' = "free"
    /\ UNCHANGED <<clock, delays, replies, outcome,
                   cloudVars, opVars, destroyVars, waitVars, addVars, nameVars, acctVars, records, mapVars, ipVars>>

NextRetry ==
    \/ \E took \in CallTimes, reply \in DeleteReplies : DeleteSecurityGroup(took, reply)
    \/ GroupFreed

SpecRetry == InitRetry /\ [][NextRetry]_vars

\* ------------------------------------------- _getProfileARN call by call

\* _getProfileARN on its own, one IAM call at a time, on a role and a profile
\* that other parties may have bound differently between two runs.

\* The roles a profile may be found with: the cluster's own and two others.
RoleNames == {OwnRole, "other", "third"}

\* The states the role and the profile can be in: no profile, no binding;
\* a role that is bound exists.
IdentityStates ==
    {i \in [role : BOOLEAN, profile : BOOLEAN, attached : SUBSET RoleNames] :
        /\ ~i.profile => i.attached = {}
        /\ OwnRole \in i.attached => i.role}

\* What _getProfileARN leaves alone.
identityFrame ==
    <<instances, sg, spotOutstanding, ensN, ret, argBad, ns, zoneEnv,
      destroyVars, waitVars, addVars, auxVars>>

\* Between two runs another party rebinds, creates or deletes the role and
\* the profile.
ForeignChange(i) ==
    /\ Idle
    /\ opName \in {"none", "getProfileARN"}
    /\ i \in IdentityStates
    /\ i # iam
    /\ iam' = i
    /\ pc' = "idle" /\ opName' = "none" /\ result' = "none"
    /\ calls' = {} /\ seen' = {}
    /\ pre' = [pre EXCEPT !.iam = i]
    /\ UNCHANGED identityFrame

\* _getProfileARN is entered.
GetProfileARNBegin ==
    /\ Idle
    /\ opName \in {"none", "getProfileARN"}
    /\ pc' = "p_setup" /\ opName' = "getProfileARN" /\ result' = "none"
    /\ calls' = {} /\ seen' = {}
    /\ pre' = [pre EXCEPT !.iam = iam]
    /\ UNCHANGED <<iam, identityFrame>>

\* line 465: setup_iam_ec2_role creates the role unless it is there and puts
\* its policies.
SetupRole(fails) ==
    /\ pc = "p_setup"
    /\ calls' = calls \cup {"setup_iam_ec2_role"}
    /\ IF fails
       THEN Raise("IAMError") /\ UNCHANGED iam
       ELSE /\ iam' = [iam EXCEPT !.role = TRUE]
            /\ pc' = "p_get"
            /\ UNCHANGED result
    /\ UNCHANGED <<seen, opName, pre, identityFrame>>

\* lines 467-478: the profile is fetched, or created on a 404.
GetProfile ==
    /\ pc = "p_get"
    /\ IF iam.profile
       THEN /\ calls' = calls \cup {"get_instance_profile"}
            /\ UNCHANGED <<iam, seen>>
       ELSE /\ calls' = calls \cup {"get_instance_profile", "create_instance_profile"}
            /\ seen' = seen \cup {NotFoundAt.get_instance_profile}
            /\ iam' = [iam EXCEPT !.profile = TRUE]
    /\ pc' = "p_check"
    /\ UNCHANGED <<result, opName, pre, identityFrame>>

\* lines 480-488 with the role found left bound.
CheckRolesKeepBound ==
    /\ pc = "p_check"
    /\ IF Cardinality(iam.attached) > 1
       THEN Raise("RuntimeError") /\ UNCHANGED <<iam, calls>>
       ELSE IF iam.attached = {OwnRole}
       THEN pc' = "returned" /\ result' = "ok" /\ UNCHANGED <<iam, calls>>
       ELSE pc' = "p_attach" /\ UNCHANGED <<iam, calls, result>>
    /\ UNCHANGED <<seen, opName, pre, identityFrame>>

\* lines 480-488: more than one role is fatal; the expected role alone is
\* the normal return; another role is removed from the profile.
CheckRoles ==
    /\ pc = "p_check"
    /\ IF Cardinality(iam.attached) > 1
       THEN Raise("RuntimeError") /\ UNCHANGED <<iam, calls>>
       ELSE IF iam.attached = {OwnRole}
       THEN pc' = "returned" /\ result' = "ok" /\ UNCHANGED <<iam, calls>>
       ELSE IF iam.attached # {}
       THEN /\ iam' = [iam EXCEPT !.attached = {}]
            /\ calls' = calls \cup {"remove_role_from_instance_profile"}
            /\ pc' = "p_attach"
            /\ UNCHANGED result
       ELSE pc' = "p_attach" /\ UNCHANGED <<iam, calls, result>>
    /\ UNCHANGED <<seen, opName, pre, identityFrame>>

\* lines 489-491: add_role_to_instance_profile, tried again while it answers
\* 404.  reply: it succeeds at once, succeeds after 404s, answers 404 until
\* the retry gives up, or fails otherwise.
AddRole(reply) ==
    /\ pc = "p_attach"
    /\ calls' = calls \cup {"add_role_to_instance_profile"}
    /\ seen' = IF reply \in {"404 then ok", "404"}
               THEN seen \cup {"404 add_role_to_instance_profile"} ELSE seen
    /\ IF reply \in {"ok", "404 then ok"}
       THEN /\ iam' = [iam EXCEPT !.attached = iam.attached \cup {OwnRole}]
            /\ pc' = "returned" /\ result' = "ok"
       ELSE Raise("BotoServerError") /\ UNCHANGED iam
    /\ UNCHANGED <<opName, pre, identityFrame>>

NextIdentity ==
    \/ \E i \in IdentityStates : ForeignChange(i)
    \/ GetProfileARNBegin
    \/ \E fails \in BOOLEAN : SetupRole(fails)
    \/ GetProfile
    \/ CheckRoles
    \/ \E reply \in {"ok", "404 then ok", "404", "error"} : AddRole(reply)

SpecIdentity == Init /\ [][NextIdentity]_vars

\* ------------------------------------------ the listings of one cluster

\* The instances of one cluster as launchCluster and _addNodes make them and
\* as the listings of the provisioner return them.  The place in records is
\* the launch order; an instance has one private address, its own.

MaxRecs == 3

RecIds == 1..Len(records)

listingFrame ==
    <<cloudVars, opVars, destroyVars, waitVars, addVars, nameVars, acctVars, retryVars,
      mapVars, ipVars>>

\* The instances a provisioner runs on (lines 44-55): the running leaders.
Hosts == {p \in RecIds : records[p].role = "leader" /\ records[p].state = "running"}

\* launchCluster, lines 224-244: one more leader in the group of the name,
\* on demand or from a spot request.
RecLaunch(spot) ==
    /\ Len(records) < MaxRecs
    /\ records' = Append(records, [role |-> "leader", spot |-> spot, state |-> "pending"])
    /\ UNCHANGED listingFrame

\* _addNodes on the provisioner of host p, lines 352-377: one more worker.
RecAdd(p, preemptable) ==
    /\ p \in Hosts
    /\ Len(records) < MaxRecs
    /\ records' = Append(records, [role |-> "worker", spot |-> preemptable, state |-> "pending"])
    /\ UNCHANGED listingFrame

RecRun(i) ==
    /\ i \in RecIds
    /\ records[i].state = "pending"
    /\ records' = [records EXCEPT ![i].state = "running"]
    /\ UNCHANGED listingFrame

RecDie(i) ==
    /\ i \in RecIds
    /\ records[i].state \in {"pending", "running"}
    /\ records' = [records EXCEPT ![i].state = "terminated"]
    /\ UNCHANGED listingFrame

\* __getNodesInCluster with the on-demand listing left unfiltered.
ListNodesUnfiltered(preemptable, both) ==
    LET pendingInstances == {i \in RecIds : records[i].state = "pending"}
        runningInstances == {i \in RecIds : records[i].state = "running"}
        instances_ == pendingInstances \cup runningInstances
    IN  IF preemptable /\ ~both THEN {x \in instances_ : records[x].spot}
        ELSE instances_

\* __getNodesInCluster(ctx, clusterName, preemptable, both), lines 395-406,
\* on the instances of the group.
ListNodes(preemptable, both) ==
    LET pendingInstances == {i \in RecIds : records[i].state = "pending"}
        runningInstances == {i \in RecIds : records[i].state = "running"}
        instances_ == pendingInstances \cup runningInstances
    IN  IF ~preemptable /\ ~both THEN {x \in instances_ : ~records[x].spot}
        ELSE IF preemptable /\ ~both THEN {x \in instances_ : records[x].spot}
        ELSE instances_

\* _getLeader, lines 139-141: the listing sorted by launch time, its first.
LeaderOf(listing) == Min(listing)

\* _getWorkersInCluster(preemptable) on the provisioner of host p, lines
\* 414-421: the whole cluster but the instance with the address of the host,
\* of the kind asked for, the impaired ones filtered out.
GetWorkersInCluster(p, preemptable, debug, impaired) ==
    LET entireCluster == ListNodes(FALSE, TRUE)
        workerInstances == {i \in entireCluster : i # p /\ preemptable # (~records[i].spot)}
    IN  FilterImpaired(workerInstances, debug, impaired)

NextListing ==
    \/ \E spot \in BOOLEAN : RecLaunch(spot)
    \/ \E p \in 1..MaxRecs, preemptable \in BOOLEAN : RecAdd(p, preemptable)
    \/ \E i \in 1..MaxRecs : RecRun(i)
    \/ \E i \in 1..MaxRecs : RecDie(i)

SpecListing == Init /\ [][NextListing]_vars

\* ------------------------------------- _getBlockDeviceMapping on its own

\* _getBlockDeviceMapping(instanceType), lines 381-392, one pass of its loop
\* at a time.

\* The largest number of ephemeral typeDisks of a machine type tried.
MaxDisks == 24

\* bdtKeys, line 384; the list is indexed from 0 in the source.
BdtKeysUnpadded == <<"/dev/xvdb", "/dev/xvdc", "/dev/xvdd">>

BdtKeys == <<"", "/dev/xvdb", "/dev/xvdc", "/dev/xvdd">>

mappingFrame ==
    <<cloudVars, opVars, destroyVars, waitVars, addVars, nameVars, acctVars, retryVars,
      records, ipVars>>

\* The function is entered for a machine type: bdm = BlockDeviceMapping(),
\* the loop begins at 1.
InitMapping ==
    /\ ClusterAtRest
    /\ NamesAtRest
    /\ AccountEmpty
    /\ RetryAtRest
    /\ AddressAtRest
    /\ typeDisks \in 0..MaxDisks
    /\ disk = 1
    /\ bdm = {}
    /\ bdmOut = "building"
    /\ bdmRet = {}

\* lines 387-389: bdm[bdtKeys[disk]] = BlockDeviceType('ephemeral{disk-1}');
\* an index past the list raises IndexError and the function is left.
MapDisk ==
    /\ bdmOut = "building"
    /\ disk <= typeDisks
    /\ IF disk + 1 > Len(BdtKeys)
       THEN /\ bdmOut' = "IndexError"
            /\ UNCHANGED <<disk, bdm>>
       ELSE /\ bdm' = {e \in bdm : e[1] # BdtKeys[disk + 1]}
                         \cup {<<BdtKeys[disk + 1], disk - 1>>}
            /\ disk' = disk + 1
            /\ UNCHANGED bdmOut
    /\ UNCHANGED <<typeDisks, bdmRet, mappingFrame>>

\* line 392: return bdm.
MapReturn ==
    /\ bdmOut = "building"
    /\ disk > typeDisks
    /\ bdmOut' = "returned"
    /\ bdmRet' = {bdm}
    /\ UNCHANGED <<typeDisks, disk, bdm, mappingFrame>>

NextMapping ==
    \/ MapDisk
    \/ MapReturn

SpecMapping == InitMapping /\ [][NextMapping]_vars

\* ------------------------------------------------- _waitForIP on its own

\* _waitForIP(instance), lines 167-179, pass by pass, on an instance whose
\* addresses the cloud assigns and takes back.

\* Passes of the loop looked at.
MaxPolls == 3

Addresses == [ip : BOOLEAN, dns : BOOLEAN, private : BOOLEAN]

addressFrame ==
    <<cloudVars, opVars, destroyVars, waitVars, addVars, nameVars, acctVars, retryVars,
      records, mapVars>>

\* _getLeader reaches line 146: the leader is running, with the addresses
\* it happens to have.
InitAddress ==
    /\ ClusterAtRest
    /\ NamesAtRest
    /\ AccountEmpty
    /\ RetryAtRest
    /\ MappingAtRest
    /\ cloudAddr \in Addresses
    /\ seenAddr = NoAddress
    /\ ipStage = "Running"
    /\ polls = 0

\* The cloud gives the instance an address or takes one back.
AddrChange(a) ==
    /\ a \in Addresses
    /\ a # cloudAddr
    /\ \E f \in {"ip", "dns", "private"} : a = [cloudAddr EXCEPT ![f] = ~cloudAddr[f]]
    /\ cloudAddr' = a
    /\ UNCHANGED <<seenAddr, ipStage, polls, addressFrame>>

\* The test of line 177 with the private address counted too.
HasAddressOrPrivate(i) == i.ip \/ i.dns \/ i.private

\* line 177: instance.ip_address or instance.public_dns_name.
HasAddress(i) == i.ip \/ i.dns

\* One pass, lines 175-179: sleep, instance.update(), and the test.
WaitForIPPoll ==
    /\ ipStage = "Running"
    /\ polls < MaxPolls
    /\ polls' = polls + 1
    /\ seenAddr' = cloudAddr
    /\ ipStage' = IF HasAddress(cloudAddr) THEN "IPAssigned" ELSE "Running"
    /\ UNCHANGED <<cloudAddr, addressFrame>>

NextAddress ==
    \/ \E a \in Addresses : AddrChange(a)
    \/ WaitForIPPoll

SpecAddress == InitAddress /\ [][NextAddress]_vars

\* ------------------------------------------------------------------ claims

IsPrefix(s, t) == Len(s) <= Len(t) /\ \A i \in 1..Len(s) : s[i] = t[i]

\* The three ingress rules of the fixed policy: 22/tcp open, 0-65535/tcp from
\* the group itself, 5050-5051/tcp open.
ThreeRules ==
    {[proto |-> "tcp", from |-> 22, to |-> 22, src |-> "0.0.0.0/0"],
     [proto |-> "tcp", from |-> 0, to |-> 65535, src |-> "group"],
     [proto |-> "tcp", from |-> 5050, to |-> 5051, src |-> "0.0.0.0/0"]}

\* C1: destroyCluster issues the delete-security-group call only if the
\* instances selected for termination are all the instances discovered; while
\* an instance is held back (terminable a strict subset) no such call is issued.
C1_GroupDeleteGated ==
    "delete_security_group" \in calls =>
        /\ opName = "destroy"
        /\ terminable = discovered

C1_Witness ==
    /\ opName = "destroy" /\ pc = "returned"
    /\ "delete_security_group" \in calls
    /\ Cardinality(discovered) >= 2

\* C2: after destroyCluster returns on a cluster with an impaired, preserved
\* instance and a healthy one, the security group, the IAM role and the
\* instance profile still exist and exactly the healthy instances were
\* terminated.
C2_SharedResourcesKept ==
    (/\ opName = "destroy" /\ pc = "returned"
     /\ preserved # {} /\ discovered \ preserved # {}
     /\ pre.sg.exists /\ pre.iam.role /\ pre.iam.profile)
    => /\ sg.exists
       /\ iam.role /\ iam.profile
       /\ terminable = discovered \ preserved

\* C3: addNodes(n, preemptable=false), every request fulfilled, asks the cloud
\* for n on-demand instances and returns n.
C3_OnDemandCount ==
    (opName = "addNodes" /\ pc = "returned" /\ ~argPre)
    => requested = argN /\ ret = argN

\* C4: addNodes(n, preemptable=true) with k of the n spot requests fulfilled
\* raises no error and returns k, the number of instances launched.
C4_SpotPartialCount ==
    (/\ opName = "addNodes" /\ argPre /\ pc \in {"returned", "raised"}
     /\ "request_spot_instances" \in calls)
    => pc = "returned" /\ ret = Cardinality(launched)

\* C5: addNodes never returns while an instance it launched is still pending.
C5_ReturnsAfterRunning ==
    (opName = "addNodes" /\ pc = "returned")
    => \A i \in launched : instances[i] # "pending"

\* C6: the readiness wait enters its stages in the order Pending, Running,
\* IPAssigned, SSHReachable, DockerRunning, ApplianceRunning, skipping none
\* and never going back, and launchCluster returns the leader only once
\* ApplianceRunning was entered.
C6_StagesInOrder ==
    /\ IsPrefix(visited, StageOrder)
    /\ (opName = "launch" /\ pc = "returned") => visited = StageOrder /\ ret = leader

C6_Witness ==
    opName = "launch" /\ pc = "returned" /\ Stage = "ApplianceRunning"

\* C7 as stated: the readiness wait ends in no other way than by reaching
\* ApplianceRunning.
C7_WaitEndsOnlyReady ==
    (opName = "launch" /\ visited # <<>> /\ pc \in {"returned", "raised"})
    => Stage = "ApplianceRunning"

\* C7, amended: an unsatisfied probe leaves the wait in its stage; the wait
\* ends by reaching ApplianceRunning, or with UnexpectedResourceState when the
\* instance left Pending for a state other than Running, or with
\* CalledProcessError when the remote command of the docker or appliance
\* probe failed; and under the fair environment it does end.
C7_WaitEndsReadyOrError ==
    /\ [](opName = "launch" /\ visited # <<>> =>
            /\ pc \in {"l_wait", "returned", "raised"}
            /\ pc = "returned" => Stage = "ApplianceRunning"
            /\ pc = "raised" =>
                 \/ /\ result = "UnexpectedResourceState"
                    /\ Stage = "Pending"
                    /\ instances[leader] \notin {"pending", "running"}
                 \/ /\ result = "CalledProcessError"
                    /\ Stage \in {"SSHReachable", "DockerRunning"})
    /\ (pc = "l_wait") ~> (pc \in {"returned", "raised"})

C7_Witness ==
    opName = "launch" /\ pc = "raised" /\ result = "CalledProcessError"

\* C8: starting with no group, _createSecurityGroup invoked twice leaves the
\* group with exactly the three rules, as after one invocation; the second
\* call, seeing 'already exists', changes nothing and raises no error.
C8_EnsureIdempotent ==
    /\ ensN >= 1 => sg.exists /\ sg.rules = ThreeRules
    /\ (opName = "launch" /\ "already_exists" \in seen) =>
          /\ sg = pre.sg
          /\ result # "EC2Error"

C8_Witness ==
    opName = "launch" /\ pc = "l_inst" /\ ensN = 2 /\ "already_exists" \in seen

\* C9: whenever _createSecurityGroup returns normally, from any prior state,
\* the group exists and carries exactly the three rules.
C9_EnsureAlwaysThreeRules ==
    (opName = "launch" /\ pc = "l_inst") => sg.exists /\ sg.rules = ThreeRules

\* C10 as stated: for a name with an uppercase letter or '_', launchCluster
\* and destroyCluster fail with a configuration error before any cloud call,
\* the zone lookup included.
C10_NoCallBeforeNameError ==
    (opName \in {"launch", "destroy"} /\ argBad) =>
        /\ pc = "raised"
        /\ result \in {"NameError", "ZoneError"}
        /\ calls = {}

\* C10, amended: for such a name both fail with a configuration error having
\* issued no call but the zone lookup, the cloud state left as it was; for the
\* cluster's name every call builds the same namespace.
C10_NameErrorBeforeCloudCalls ==
    /\ (opName \in {"launch", "destroy"} /\ argBad) =>
          /\ pc = "raised"
          /\ result \in {"NameError", "ZoneError"}
          /\ calls \subseteq {"zone_lookup"}
          /\ sg = pre.sg /\ iam = pre.iam /\ spotOutstanding = pre.spot
    /\ (opName \in {"launch", "destroy", "addNodes"} /\ ~argBad) =>
          /\ ns \in {<<>>, <<"/", "a", "/", "a", "/">>}
          /\ ns = <<>> => pc = "raised" /\ result = "ZoneError"

C10_Witness ==
    /\ opName = "destroy" /\ argBad /\ pc = "raised" /\ result = "NameError"
    /\ "zone_lookup" \in calls
    /\ sg.exists /\ \E i \in Ids : Live(i)

\* C11: the namespace encoding is reversible: two distinct valid cluster names
\* never encode to the same namespace, and 'my-cluster' encodes to
\* '/my/cluster/'.
C11_NamespaceInjective ==
    /\ ToNameSpace(<<"m", "y", "-", "c", "l", "u", "s", "t", "e", "r">>).ns
          = <<"/", "m", "y", "/", "c", "l", "u", "s", "t", "e", "r", "/">>
    /\ (/\ nsOut # <<>>
        /\ nameIn[1] # nameIn[2]
        /\ nsOut[1].ok /\ nsOut[2].ok)
       => nsOut[1].ns # nsOut[2].ns

\* A step of launchCluster, _addNodes or destroyCluster run for cluster c.
StepFor(c) ==
    \/ \E spot \in BOOLEAN, tagged \in BOOLEAN, fulfilled \in BOOLEAN :
          LaunchAcct(c, spot, tagged, fulfilled)
    \/ \E p \in FleetIds, n \in 1..MaxNodes, preemptable \in BOOLEAN, tagged \in BOOLEAN,
          active \in 0..MaxNodes :
          fleet[p].group = c /\ AddNodesAcct(p, n, preemptable, tagged, active)
    \/ \E tagsReply \in {"error", "none", "tagged"}, cancelAccepted \in BOOLEAN,
          debug \in BOOLEAN, impaired \in SUBSET FleetIds, deleted \in BOOLEAN :
          DestroyAcct(c, tagsReply, cancelAccepted, debug, impaired, deleted)

\* What belongs to cluster b is as it was: no instance of it terminated, no
\* spot request of it cancelled, its security group and the role and profile
\* its instances are bound to still there.
Untouched(b) ==
    /\ \A i \in FleetIds :
          (fleet[i].group = b /\ fleet[i].state # "terminated")
          => /\ fleet'[i].state # "terminated"
             /\ fleet[i].profile \in roles => fleet[i].profile \in roles'
    /\ \A k \in ReqIds :
          (spotReqs[k].by = b /\ spotReqs[k].state # "cancelled")
          => spotReqs'[k].state # "cancelled"
    /\ b \in groups => b \in groups'

\* C12: an operation run for one cluster never terminates an instance, cancels
\* a spot request, deletes the security group or deletes the role or profile
\* of a cluster with another name.
C12_TenantsIndependent ==
    [][\A c \in Tenants : StepFor(c) => \A b \in Tenants \ {c} : Untouched(b)]_vars

\* C13 as stated: every instance and every spot request of a cluster carries
\* a clusterName tag equal to the cluster name, and the listing of a cluster
\* is the instances that carry its tag.
C13_AllTagged ==
    /\ \A i \in FleetIds : fleet[i].state # "terminated" => fleet[i].tag = fleet[i].group
    /\ \A k \in ReqIds : spotReqs[k].tag = spotReqs[k].by
    /\ \A c \in Tenants :
          NodesInCluster(c, FALSE, TRUE)
             = {i \in FleetIds : fleet[i].tag = c /\ fleet[i].state # "terminated"}

\* C13, amended: a spot request carries the clusterName tag of its cluster or,
\* when its tagging call failed, none; no instance carries a clusterName tag,
\* and the listing of a cluster is the pending and running instances of the
\* security group named after it.
C13_MembershipByGroup ==
    /\ \A k \in ReqIds : spotReqs[k].tag \in {spotReqs[k].by, NoTag}
    /\ \A i \in FleetIds : fleet[i].tag = NoTag
    /\ \A i \in FleetIds :
          fleet[i].state # "terminated" => i \in NodesInCluster(fleet[i].group, FALSE, TRUE)
    /\ \A c \in Tenants : \A i \in NodesInCluster(c, FALSE, TRUE) : fleet[i].group = c

C13_Witness ==
    /\ \E i \in FleetIds :
          /\ fleet[i].spot = 0 /\ fleet[i].state = "running"
          /\ i \in NodesInCluster(fleet[i].group, FALSE, TRUE)
    /\ \E k \in ReqIds : spotReqs[k].tag = spotReqs[k].by /\ spotReqs[k].state = "active"


\* ---------------------------------------------------------------- C14
\* C14: a 404 from any IAM call of the teardown (get profile, detach role,
\* list role policies, delete policy, delete role, delete profile) is
\* tolerated: destroyCluster does not raise the IAM error, and the instances
\* are terminated and the group deletion is reached.
C14_NotFoundTolerated ==
    (/\ opName = "destroy"
     /\ \E k \in 1..Len(IamCalls) : NotFoundAt[IamCalls[k]] \in seen)
    => /\ result # "BotoServerError"
       /\ "terminate_instances" \in calls

\* ---------------------------------------------------------------- C15
\* C15: once destroyCluster is past the identity teardown with instances to
\* terminate, the role and the profile of every one of them are gone, also
\* when the profile of an earlier instance was gone already.
C15_IdentityGoneForAll ==
    (/\ opName = "destroy"
     /\ pc \in {"d_group", "returned"}
     /\ terminable # {})
    => ~iam.role /\ ~iam.profile

\* ---------------------------------------------------------------- C16
\* The spot requests tagged to cluster c that are not cancelled yet.
Outstanding(c) ==
    {k \in ReqIds : spotReqs[k].tag = c /\ spotReqs[k].state \in {"open", "active"}}

\* C16: when destroyCluster(c) returns normally, the value passed to the
\* cancel call is exactly the ids of the outstanding spot requests tagged c,
\* every one of them is cancelled, and no other request changes.
C16_SpotRequestsCancelled ==
    [][\A c \in Tenants, tagsReply \in {"error", "none", "tagged"},
          cancelAccepted \in BOOLEAN, debug \in BOOLEAN,
          impaired \in SUBSET FleetIds, deleted \in BOOLEAN :
          (/\ DestroyAcct(c, tagsReply, cancelAccepted, debug, impaired, deleted)
           /\ DestroyResult(c, tagsReply, cancelAccepted, debug, impaired, deleted) = "ok")
          => /\ GetSpotRequestIDs(c, tagsReply)
                   = {[kind |-> "id", id |-> k] : k \in Outstanding(c)}
             /\ \A k \in Outstanding(c) : spotReqs'[k].state = "cancelled"
             /\ \A k \in ReqIds \ Outstanding(c) : spotReqs'[k] = spotReqs[k]]_vars

\* ---------------------------------------------------------------- C17
\* C17: the deletion of the security group goes round again only after a
\* 'dependent object' error, and only while the retry window of 300 s is
\* open; once the window is used up that error is raised; 'group not found'
\* ends the deletion as success; any other error is raised by the attempt
\* that met it.
C17_RetryOnlyDependent ==
    /\ \A k \in 1..Len(replies) :
          (k < Len(replies) \/ outcome = "trying") => replies[k].body = "dependent object"
    /\ outcome = "trying" => clock < Timeout
    /\ outcome = "ok" =>
          /\ sgState = "gone"
          /\ replies[Len(replies)] = Deleted \/ replies[Len(replies)].code = "InvalidGroup.NotFound"
    /\ outcome = "raised" =>
          /\ replies[Len(replies)] # Deleted
          /\ replies[Len(replies)].code # "InvalidGroup.NotFound"
          /\ replies[Len(replies)].code = "DependencyViolation" => clock + Head(delays) >= Timeout

C17_Witness ==
    /\ outcome = "raised"
    /\ Len(replies) >= Len(DefaultDelays)
    /\ replies[Len(replies)].code = "DependencyViolation"

\* ---------------------------------------------------------------- C18
MutatingIamCalls ==
    {"setup_iam_ec2_role", "create_instance_profile",
     "remove_role_from_instance_profile", "add_role_to_instance_profile"}

\* The profile is bound one to one whenever _getProfileARN has not found it
\* otherwise: a role found that is not the expected one is off the profile
\* before the expected one is put on, a normal return leaves exactly the
\* expected role, and the profile never carries two roles on the way.
OneToOne ==
    /\ pc = "p_attach" => iam.attached = {}
    /\ (pre.iam.attached \notin {{}, {OwnRole}} /\ "add_role_to_instance_profile" \in calls)
          => "remove_role_from_instance_profile" \in calls
    /\ pc = "returned" => iam.attached = {OwnRole} /\ iam.role /\ iam.profile
    /\ Cardinality(pre.iam.attached) <= 1 => Cardinality(iam.attached) <= 1

\* C18 as stated: a profile found with more than one role makes
\* _getProfileARN fail fatally at once and without any IAM mutation; and the
\* binding is kept one to one.
C18_BindingKeptNoMutation ==
    opName = "getProfileARN" =>
        /\ (Cardinality(pre.iam.attached) > 1 /\ "get_instance_profile" \in calls) =>
              /\ pc = "p_check" \/ (pc = "raised" /\ result = "RuntimeError")
              /\ iam = pre.iam
              /\ calls \cap MutatingIamCalls = {}
        /\ OneToOne

\* C18, amended: a profile found with more than one role makes
\* _getProfileARN fail fatally at once, the profile and what is bound to it
\* left as found, the expected role having been set up before; and the
\* binding is kept one to one.
C18_BindingKept ==
    opName = "getProfileARN" =>
        /\ (Cardinality(pre.iam.attached) > 1 /\ "get_instance_profile" \in calls) =>
              /\ pc = "p_check" \/ (pc = "raised" /\ result = "RuntimeError")
              /\ iam = [pre.iam EXCEPT !.role = TRUE]
              /\ calls \cap MutatingIamCalls = {"setup_iam_ec2_role"}
        /\ OneToOne

C18_Witness ==
    /\ opName = "getProfileARN" /\ pc = "returned"
    /\ pre.iam.attached = {"other"}
    /\ "remove_role_from_instance_profile" \in calls
    /\ iam.attached = {OwnRole}

\* ---------------------------------------------------------------- C19
\* C19: of a non-empty cluster exactly one instance is the leader, none was
\* launched before it, the workers are all the others, and the workers the
\* provisioner computes (all but the instance with the leader address) are
\* the instances other than the earliest launched, of the kind asked for.
C19_ClassificationAgrees ==
    LET all == ListNodes(FALSE, TRUE)
        theLeader == LeaderOf(all)
        workers == all \ {theLeader}
    IN  all # {} =>
          /\ theLeader \in all
          /\ \A r \in all : theLeader <= r
          /\ \A p \in Hosts, preemptable \in BOOLEAN, debug \in BOOLEAN, impaired \in SUBSET all :
                GetWorkersInCluster(p, preemptable, debug, impaired)
                   = {r \in workers : records[r].spot = preemptable}

\* ---------------------------------------------------------------- C20
\* C20: of the pending and running instances of the cluster, the preemptable
\* listing and the non-preemptable listing are disjoint, together they are
\* the 'both' listing, and an instance is in the preemptable listing exactly
\* when it has a spot request id.
C20_ListingsPartition ==
    LET both == ListNodes(FALSE, TRUE)
    IN  /\ both = {i \in RecIds : records[i].state \in {"pending", "running"}}
        /\ ListNodes(TRUE, TRUE) = both
        /\ ListNodes(TRUE, FALSE) \cap ListNodes(FALSE, FALSE) = {}
        /\ ListNodes(TRUE, FALSE) \cup ListNodes(FALSE, FALSE) = both
        /\ \A i \in both : i \in ListNodes(TRUE, FALSE) <=> records[i].spot

C20_Witness ==
    /\ \E i \in ListNodes(TRUE, FALSE) : records[i].state = "pending"
    /\ \E i \in ListNodes(FALSE, FALSE) : records[i].state = "running"
    /\ \E i \in RecIds : records[i].state = "terminated"

\* ---------------------------------------------------------------- C23
\* C23: the instance launchCluster returns is the one that call created,
\* also when the group held pending or running instances of an earlier
\* launch: the look-up of the leader does not return an older instance.
C23_ReturnsOwnInstance ==
    (opName = "launch" /\ pc = "returned") => ret \in launched

\* ---------------------------------------------------------------- C25
\* Nothing of the cluster was left when the running destroyCluster began: no
\* pending or running instance, no spot request, no security group, no role
\* and no profile.
FullyDestroyed ==
    /\ discovered = {}
    /\ ~pre.spot
    /\ ~pre.sg.exists
    /\ pre.iam = NoIdentity

\* The calls that terminate, cancel or delete.
DestructiveCalls ==
    {"terminate_instances", "cancel_spot_instance_requests",
     "remove_role_from_instance_profile", "delete_role_policy", "delete_role",
     "delete_instance_profile"}

\* C25: destroyCluster invoked again, its context built as before, on a
\* cluster of which nothing is left does not raise, issues no terminate,
\* cancel or IAM delete call and leaves the cloud state as it was.
C25_DestroyIdempotent ==
    (opName = "destroy" /\ ns # <<>> /\ FullyDestroyed) =>
        /\ pc # "raised"
        /\ pc = "returned" => result = "ok"
        /\ calls \cap DestructiveCalls = {}
        /\ sg = pre.sg /\ iam = pre.iam /\ spotOutstanding = pre.spot
        /\ \A i \in Ids : instances[i] = "terminated"

C25_Witness ==
    /\ opName = "destroy" /\ pc = "returned" /\ FullyDestroyed
    /\ "delete_security_group" \in calls
    /\ "InvalidGroup.NotFound" \in seen
    /\ instances # <<>>

\* ---------------------------------------------------------------- C24
\* C24: once destroyCluster has issued the delete-security-group call, every
\* instance of the group that is not terminated (stopped ones and ones that
\* showed up after the snapshot too) was among those it terminated.
C24_AllMembersTerminated ==
    (opName = "destroy" /\ "delete_security_group" \in calls) =>
        \A i \in Ids : instances[i] # "terminated" =>
            i \in terminable /\ "terminate_instances" \in calls

\* ---------------------------------------------------------------- C21
\* C21: for a machine type with d ephemeral disks, d in {0,1,2,3}, the
\* mapping returned has exactly d entries, the i-th of /dev/xvdb, /dev/xvdc,
\* /dev/xvdd mapped to ephemeral disk i-1; for d > 3 the function fails
\* with an error and hands back no mapping.
C21_MappingExact ==
    LET slots == <<"/dev/xvdb", "/dev/xvdc", "/dev/xvdd">> IN
    /\ bdmOut = "returned" =>
          /\ typeDisks <= Len(slots)
          /\ bdmRet = {{<<slots[i], i - 1>> : i \in 1..typeDisks}}
          /\ \A m \in bdmRet : Cardinality(m) = typeDisks
    /\ bdmOut = "IndexError" => typeDisks > Len(slots) /\ bdmRet = {}
    /\ bdmOut \in {"returned", "IndexError"} => (bdmOut = "IndexError" <=> typeDisks > Len(slots))

C21_Witness ==
    bdmOut = "returned" /\ typeDisks = 3 /\ Cardinality(bdm) = 3

\* ---------------------------------------------------------------- C22
\* C22 as stated: the stage Running is left as soon as a re-fetch shows a
\* public or a private address, so also by an instance with a private
\* address only, and is never left while the instance shows no address.
C22_LeavesOnAnyAddress ==
    /\ ipStage = "IPAssigned" => HasAddressOrPrivate(seenAddr)
    /\ (ipStage \in {"Running", "IPAssigned"} /\ polls >= 1 /\ HasAddressOrPrivate(seenAddr))
          => ipStage = "IPAssigned"

\* C22, amended: the stage Running is left as soon as a re-fetch shows a
\* public address or a public DNS name; an instance that shows a private
\* address only stays in the stage; the stage is never left while the
\* instance shows no address.
C22_LeavesOnPublicAddress ==
    /\ ipStage = "IPAssigned" => seenAddr.ip \/ seenAddr.dns
    /\ (ipStage \in {"Running", "IPAssigned"} /\ polls >= 1 /\ (seenAddr.ip \/ seenAddr.dns))
          => ipStage = "IPAssigned"
    /\ (polls >= 1 /\ ~seenAddr.ip /\ ~seenAddr.dns) => ipStage = "Running"

C22_Witness ==
    /\ ipStage = "Running" /\ polls >= 2
    /\ seenAddr = [ip |-> FALSE, dns |-> FALSE, private |-> TRUE]

====
